---- MODULE Spec2Model ----
(***************************************************************************)
(* torchdata/dataloader2/reading_service.py                                *)
(*                                                                         *)
(* PrototypeMultiProcessingReadingService (the worker pool manager) and    *)
(* _IterateQueueDataPipes (the merge iterator), together with the worker   *)
(* processes and the per-worker request/response queues they talk over.   *)
(*                                                                         *)
(* The controller is one thread: while it is inside a call (the poll loop  *)
(* of the merge iterator, reset_iterator, finalize) it does nothing else.  *)
(* The generator returned by __iter__ is suspended at its yield between    *)
(* two calls of next(), and the consumer may call any operation of the     *)
(* service there.  Workers run concurrently with the controller.           *)
(*                                                                         *)
(* DistributedReadingService: one instance per rank of the distributed     *)
(* job, each rank a process of its own running the same calls; the ranks   *)
(* meet in the collectives of torch.distributed (new_group, broadcast) and *)
(* in the FullSync stage at the end of the pipeline.                       *)
(***************************************************************************)
EXTENDS Integers, Sequences, FiniteSets, TLC

\* Bounds of the model.
MaxProcs == 2    \* worker processes spawned over the life of one service
MaxLen == 2      \* longest per-worker item sequence
MaxOps == 3      \* service-level calls (initialize, initialize_iteration, iter, finalize)
MaxCrash == 1    \* worker processes that die unexpectedly
WorldSize == 2   \* ranks of the distributed job
MaxCalls == 5    \* calls made on the DistributedReadingServices of all ranks together
MaxShard == 1    \* longest shard of a rank
MaxSeed == 2     \* seed values drawn by random_()

Workers == 1..MaxProcs

Ranks == 0..(WorldSize - 1)

VARIABLES
    num_workers,        \* self.num_workers
    processes,          \* self.processes: the workers whose (process, req_queue, res_queue) it holds
    datapipes,          \* self.datapipes: the workers whose QueueWrapper handle it holds
    pipeline,           \* what initialize returned: "none" yet, the "datapipe" it was given, or the "IterableWrapper"
    req_queue,          \* per worker: requests in flight, controller -> worker
    res_queue,          \* per worker: responses in flight, worker -> controller
    wstate,             \* per worker process: "unborn", "alive", "exited", "dead"
    wlen,               \* per worker: length of its shard of the pipeline
    wpos,               \* per worker: items produced since its last reset
    shard,              \* per worker: the (shard index, shard count) its pipeline was sharded with
    req_sent,           \* per handle: a NextItem is outstanding
    stopped,            \* per handle: EndOfStream seen since the last reset
    ctl,                \* where the controller thread is
    gen,                \* the generator of the current pass: "none", "run", "yield", "done", "error"
    exclude_datapipes,  \* local of __iter__
    cursor,             \* position of `for dp in self.datapipes`
    scan,               \* completed for-loops of the current pass
    out,                \* items yielded by the current pass
    passClean,          \* the pass started on freshly reset, idle workers and no service call has intervened
    ri,                 \* position of the loop of initialize_iteration
    fi,                 \* position of the loop of finalize
    nTerm,              \* per worker: TerminateRequests put on its request queue
    ackd,               \* per worker: finalize took a TerminateAck from its response queue
    joined,             \* per worker: process.join() returned
    pending,            \* per worker: NextItem sent minus Value/EndOfStream taken by the handle
    repolled,           \* a handle was polled after EndOfStream without a reset in between
    finDone,            \* finalize calls that returned
    ops,                \* service-level calls made
    dist_available,     \* dist.is_available()
    dist_initialized,   \* dist.is_initialized(): the caller has started the runtime, on all ranks together
    built,              \* per rank: the DistributedReadingService object exists
    world_size,         \* per rank: self._world_size
    rank,               \* per rank: self._rank
    self_datapipe,      \* per rank: self._datapipe, <<>> for None
    timeout,            \* per rank: self._timeout
    pg,                 \* per rank: self._pg, the group's id, DefaultGroup for None
    ngroups,            \* per rank: groups made by dist.new_group; the n-th made is group n on every rank
    sharding,           \* per rank: the (instance, instances) the pipeline was sharded with
    pipe,               \* per rank: the stages of the pipeline the caller holds, last stage last
    dctl,               \* per rank: "free", "bcast" inside dist.broadcast, "failed" after a collective timed out
    local_seed,         \* per rank: shared_seed while inside dist.broadcast
    sent,               \* per group: the values rank 0 has broadcast on it
    nrecv,              \* per rank and group: broadcasts of the group the rank has received
    applied,            \* per rank: the seeds given to apply_random_seed, with the broadcast they came from
    slen,               \* per rank: length of its shard
    istate,             \* per rank: "idle", "iter", "sync" (held by FullSync), "done", "timeout"
    ipos,               \* per rank: items taken from its shard
    broken,             \* the FullSync collective has timed out
    raised,             \* per rank: what the last call raised: "none", "NotAvailable", "NotInitialized",
                        \* "NoDefaultGroup" (a collective without a started runtime), "AssertionError", "Timeout"
    calls               \* per rank: calls made

svc == <<num_workers, processes, datapipes, pipeline>>
chan == <<req_queue, res_queue>>
wrk == <<wstate, wlen, wpos, shard>>
hdl == <<req_sent, stopped>>
mrg == <<gen, exclude_datapipes, cursor, scan, out, passClean>>
loops == <<ri, fi>>
hist == <<nTerm, ackd, joined, pending, repolled, finDone>>
pool == <<svc, chan, wrk, hdl, mrg, loops, hist, ctl, ops>>

denv == <<dist_available, dist_initialized>>
dfld == <<built, world_size, rank, self_datapipe, timeout, pg>>
dgrp == <<ngroups, sharding, pipe>>
dseed == <<dctl, local_seed, sent, nrecv, applied>>
diter == <<slen, istate, ipos, broken>>
dhist == <<raised, calls>>
dist == <<denv, dfld, dgrp, dseed, diter, dhist>>

vars == <<pool, dist>>

----------------------------------------------------------------------------
\* Messages (communication.messages).

NextItem == "NextItem"
ResetIteration == "ResetIteration"
Terminate == "Terminate"

NoItem == <<0, 0>>
Value(w, k) == [tag |-> "Value", item |-> <<w, k>>]
EndOfStream == [tag |-> "EndOfStream", item |-> NoItem]
ResetAck == [tag |-> "ResetAck", item |-> NoItem]
TerminateAck == [tag |-> "TerminateAck", item |-> NoItem]

Range(s) == {s[i] : i \in 1..Len(s)}

Spawned == Cardinality({w \in Workers : wstate[w] # "unborn"})

Crashed == Cardinality({w \in Workers : wstate[w] = "dead"})

----------------------------------------------------------------------------
\* self._pg = None; a collective called with group=None runs on the default group.
DefaultGroup == 0

Groups == DefaultGroup..MaxCalls

\* default_timeout_in_s: 30 minutes
DefaultTimeout == 1800

\* DistributedReadingService.__init__ on every rank: the object exists if the
\* runtime is available; nothing else has been called.
NoDist ==
    /\ dist_initialized = FALSE
    /\ built = [r \in Ranks |-> dist_available]
    /\ world_size = [r \in Ranks |-> IF dist_available THEN 1 ELSE 0]
    /\ rank = [r \in Ranks |-> 0]
    /\ self_datapipe = [r \in Ranks |-> <<>>]
    /\ timeout = [r \in Ranks |-> IF dist_available THEN DefaultTimeout ELSE 0]
    /\ pg = [r \in Ranks |-> DefaultGroup]
    /\ ngroups = [r \in Ranks |-> 0]
    /\ sharding = [r \in Ranks |-> <<0, 0>>]
    /\ dctl = [r \in Ranks |-> "free"]
    /\ local_seed = [r \in Ranks |-> 0]
    /\ sent = [g \in Groups |-> <<>>]
    /\ nrecv = [r \in Ranks |-> [g \in Groups |-> 0]]
    /\ applied = [r \in Ranks |-> <<>>]
    /\ istate = [r \in Ranks |-> "idle"]
    /\ ipos = [r \in Ranks |-> 0]
    /\ broken = FALSE
    /\ raised = [r \in Ranks |-> "none"]
    /\ calls = [r \in Ranks |-> 0]

\* PrototypeMultiProcessingReadingService.__init__: the pool is empty.
NoPool ==
    /\ processes = <<>>
    /\ datapipes = <<>>
    /\ pipeline = "none"
    /\ req_queue = [w \in Workers |-> <<>>]
    /\ res_queue = [w \in Workers |-> <<>>]
    /\ wstate = [w \in Workers |-> "unborn"]
    /\ wlen = [w \in Workers |-> 0]
    /\ wpos = [w \in Workers |-> 0]
    /\ shard = [w \in Workers |-> <<0, 0>>]
    /\ req_sent = [w \in Workers |-> FALSE]
    /\ stopped = [w \in Workers |-> FALSE]
    /\ ctl = "free"
    /\ gen = "none"
    /\ exclude_datapipes = <<>>
    /\ cursor = 0
    /\ scan = 0
    /\ out = <<>>
    /\ passClean = FALSE
    /\ ri = 0
    /\ fi = 0
    /\ nTerm = [w \in Workers |-> 0]
    /\ ackd = [w \in Workers |-> FALSE]
    /\ joined = [w \in Workers |-> FALSE]
    /\ pending = [w \in Workers |-> 0]
    /\ repolled = FALSE
    /\ finDone = 0
    /\ ops = 0

\* The process is no rank of a distributed job and has no DistributedReadingService.
NoRanks ==
    /\ dist_available = FALSE
    /\ dist_initialized = FALSE
    /\ built = <<>> /\ world_size = <<>> /\ rank = <<>>
    /\ self_datapipe = <<>> /\ timeout = <<>> /\ pg = <<>>
    /\ ngroups = <<>> /\ sharding = <<>> /\ pipe = <<>>
    /\ dctl = <<>> /\ local_seed = <<>> /\ sent = <<>> /\ nrecv = <<>> /\ applied = <<>>
    /\ slen = <<>> /\ istate = <<>> /\ ipos = <<>>
    /\ broken = FALSE
    /\ raised = <<>> /\ calls = <<>>

Init ==
    /\ NoRanks
    /\ num_workers \in 0..MaxProcs
    /\ NoPool

----------------------------------------------------------------------------
\* PrototypeMultiProcessingReadingService.initialize

\* The ids of the processes one call spawns, in the order of range(num_workers).
NewWorkers == (Spawned + 1)..(Spawned + num_workers)

\* Variant: every worker is given shard index 0.
WorkerIdZero(i) == 0

\* for worker_id in range(self.num_workers): the id of the i-th process spawned by the call.
WorkerId(i) == i - 1

\* init_datapipe_process: apply_sharding(datapipe, num_workers, worker_id)
ApplySharding(i) == <<WorkerId(i), num_workers>>

\* Variant: the pool is built whatever num_workers is.
PassthroughNever == FALSE

\* if self.num_workers == 0: return datapipe
Passthrough == num_workers = 0

Initialize ==
    /\ UNCHANGED dist
    /\ ctl = "free"
    /\ ops < MaxOps
    /\ ops' = ops + 1
    /\ IF Passthrough
       THEN /\ pipeline' = "datapipe"
            /\ UNCHANGED <<num_workers, processes, datapipes, chan, wrk, hdl, mrg, loops,
                           hist, ctl>>
       ELSE /\ Spawned + num_workers <= MaxProcs
            /\ \E lens \in [NewWorkers -> 0..MaxLen] :
                 /\ wlen' = [w \in Workers |-> IF w \in NewWorkers THEN lens[w] ELSE wlen[w]]
                 /\ wstate' = [w \in Workers |-> IF w \in NewWorkers THEN "alive" ELSE wstate[w]]
            /\ shard' = [w \in Workers |-> IF w \in NewWorkers
                                            THEN ApplySharding(w - Spawned) ELSE shard[w]]
            /\ processes' = processes \o [i \in 1..num_workers |-> Spawned + i]
            /\ datapipes' = datapipes \o [i \in 1..num_workers |-> Spawned + i]
            /\ pipeline' = "IterableWrapper"
            /\ passClean' = FALSE
            /\ UNCHANGED <<num_workers, chan, wpos, hdl, gen, exclude_datapipes, cursor,
                           scan, out, loops, hist, ctl>>

----------------------------------------------------------------------------
\* The worker process: the event loop behind the queues.

WorkerServe(w) ==
    /\ UNCHANGED dist
    /\ wstate[w] = "alive"
    /\ req_queue[w] # <<>>
    /\ LET rq == Head(req_queue[w]) IN
       /\ req_queue' = [req_queue EXCEPT ![w] = Tail(@)]
       /\ CASE rq = NextItem ->
                 IF wpos[w] < wlen[w]
                 THEN /\ res_queue' = [res_queue EXCEPT ![w] = Append(@, Value(w, wpos[w] + 1))]
                      /\ wpos' = [wpos EXCEPT ![w] = @ + 1]
                      /\ UNCHANGED wstate
                 ELSE /\ res_queue' = [res_queue EXCEPT ![w] = Append(@, EndOfStream)]
                      /\ UNCHANGED <<wpos, wstate>>
            [] rq = ResetIteration ->
                 /\ res_queue' = [res_queue EXCEPT ![w] = Append(@, ResetAck)]
                 /\ wpos' = [wpos EXCEPT ![w] = 0]
                 /\ UNCHANGED wstate
            [] rq = Terminate ->
                 /\ res_queue' = [res_queue EXCEPT ![w] = Append(@, TerminateAck)]
                 /\ wstate' = [wstate EXCEPT ![w] = "exited"]
                 /\ UNCHANGED wpos
    /\ UNCHANGED <<svc, wlen, shard, hdl, mrg, loops, hist, ctl, ops>>

Serve == \E w \in Workers : WorkerServe(w)

\* A worker process dies with a request to answer and does not answer it.  The
\* controller sees a worker only through its response queue and join(), so a
\* worker that dies idle is one that dies on its next request.
Crash ==
    /\ UNCHANGED dist
    /\ Crashed < MaxCrash
    /\ \E w \in Workers :
         /\ wstate[w] = "alive"
         /\ req_queue[w] # <<>>
         /\ wstate' = [wstate EXCEPT ![w] = "dead"]
    /\ UNCHANGED <<svc, chan, wlen, wpos, shard, hdl, mrg, loops, hist, ctl, ops>>

----------------------------------------------------------------------------
\* The worker handle (QueueWrapper over the protocol client): nonblocking_next.

\* Variant: a NextItem is put on every poll.
CanTakeRequestAlways(w) == TRUE

\* A NextItem is sent only when none is outstanding.
CanTakeRequest(w) == ~req_sent[w]

\* What one call of dp.nonblocking_next() does and returns: whether it puts a
\* NextItem, and what it finds on the response queue without waiting.
try_next(w) ==
    LET send == CanTakeRequest(w)
        rs == res_queue[w]
    IN  IF rs = <<>>
        THEN [send |-> send, result |-> "NotAvailable", item |-> NoItem]
        ELSE IF Head(rs).tag = "Value"
        THEN [send |-> send, result |-> "Value", item |-> Head(rs).item]
        ELSE IF Head(rs).tag = "EndOfStream"
        THEN [send |-> send, result |-> "StopIteration", item |-> NoItem]
        ELSE [send |-> send, result |-> "Error", item |-> NoItem]

----------------------------------------------------------------------------
\* _IterateQueueDataPipes.__iter__

\* Variant: the loop condition is off by one.
WhileCondShort(excl) == Len(excl) + 1 < Len(datapipes)

\* while len(exclude_datapipes) < len(self.datapipes)
WhileCond(excl) == Len(excl) < Len(datapipes)

\* Variant: the exclusion test is left out.
NotExcludedAny(dp, excl) == TRUE

\* if dp not in exclude_datapipes
NotExcluded(dp, excl) == dp \notin Range(excl)

\* The control flow of the two outer loops from position i of the for-loop:
\* the next handle to poll, or the end of the pass, and the for-loops completed
\* on the way.  "spin": the while-loop repeats with nothing left to poll.
RECURSIVE Seek(_, _, _)
Seek(i, excl, wrapped) ==
    IF i <= Len(datapipes)
    THEN IF NotExcluded(datapipes[i], excl)
         THEN [kind |-> "poll", at |-> i, scans |-> wrapped]
         ELSE Seek(i + 1, excl, wrapped)
    ELSE IF ~WhileCond(excl)
         THEN [kind |-> "done", at |-> i, scans |-> wrapped + 1]
         ELSE IF wrapped = 0
              THEN Seek(1, excl, 1)
              ELSE [kind |-> "spin", at |-> i, scans |-> wrapped]

\* Variant: forever is not cleared after the yield, the same handle is polled again.
AfterYieldStay(i, excl) == Seek(i, excl, 0)

\* yield value; forever = False: the for-loop goes on to the next handle.
AfterYield(i, excl) == Seek(i + 1, excl, 0)

\* except StopIteration: exclude_datapipes.append(dp); forever = False
OnStopIteration(excl, dp) == Append(excl, dp)

\* Variant: on NotAvailable the for-loop goes on to the next handle.
AfterNotAvailableSkip(i, excl) == Seek(i + 1, excl, 0)

\* except NotAvailable: time.sleep(0.001), and `while forever` polls the same handle again.
AfterNotAvailable(i, excl) == [kind |-> "poll", at |-> i, scans |-> 0]

\* yield value
Yield(o, v) == Append(o, v)

\* The pass begins on workers at the start of their sequences, with idle channels.
Fresh == \A i \in 1..Len(datapipes) :
            LET w == datapipes[i] IN
            /\ wpos[w] = 0
            /\ ~req_sent[w]
            /\ req_queue[w] = <<>>
            /\ res_queue[w] = <<>>

\* Where the generator stands after the loops moved to s.
Move(s) ==
    /\ cursor' = s.at
    /\ scan' = scan + s.scans
    /\ gen' = IF s.kind = "done" THEN "done" ELSE "run"
    /\ ctl' = CASE s.kind = "done" -> "free"
                [] s.kind = "poll" -> "merge"
                [] OTHER -> "spin"

\* iter() on the wrapped _IterateQueueDataPipes and the first next(): a new generator.
StartPass ==
    /\ UNCHANGED dist
    /\ ctl = "free"
    /\ pipeline = "IterableWrapper"
    /\ ops < MaxOps
    /\ ops' = ops + 1
    /\ exclude_datapipes' = <<>>
    /\ out' = <<>>
    /\ passClean' = Fresh
    /\ LET s == Seek(1, <<>>, 0) IN
       /\ cursor' = s.at
       /\ scan' = 0
       /\ gen' = IF s.kind = "done" THEN "done" ELSE "run"
       /\ ctl' = IF s.kind = "done" THEN "free" ELSE "merge"
    /\ UNCHANGED <<svc, chan, wrk, hdl, loops, hist>>

\* next() on the suspended generator.
Resume ==
    /\ UNCHANGED dist
    /\ ctl = "free"
    /\ gen = "yield"
    /\ Move(AfterYield(cursor, exclude_datapipes))
    /\ UNCHANGED <<svc, chan, wrk, hdl, exclude_datapipes, out, passClean, loops, hist, ops>>

\* value = dp.nonblocking_next() and the three arms of the try.  In "sleep" the
\* last poll was NotAvailable and time.sleep(0.001) is running; the next poll
\* follows its return.
MergePoll ==
    /\ UNCHANGED dist
    /\ ctl \in {"merge", "sleep"}
    /\ LET dp == datapipes[cursor]
           r == try_next(dp)
       IN
       /\ req_queue' = [req_queue EXCEPT ![dp] = IF r.send THEN Append(@, NextItem) ELSE @]
       /\ res_queue' = [res_queue EXCEPT ![dp] = IF r.result = "NotAvailable" THEN @ ELSE Tail(@)]
       /\ req_sent' = [req_sent EXCEPT ![dp] =
                          IF r.result \in {"Value", "StopIteration"} THEN FALSE ELSE TRUE]
       /\ stopped' = [stopped EXCEPT ![dp] = @ \/ r.result = "StopIteration"]
       /\ pending' = [pending EXCEPT ![dp] =
                          @ + (IF r.send THEN 1 ELSE 0)
                            - (IF r.result \in {"Value", "StopIteration"} THEN 1 ELSE 0)]
       /\ repolled' = (repolled \/ stopped[dp])
       /\ CASE r.result = "Value" ->
                 /\ out' = Yield(out, r.item)
                 /\ gen' = "yield"
                 /\ ctl' = "free"
                 /\ UNCHANGED <<exclude_datapipes, cursor, scan>>
            [] r.result = "StopIteration" ->
                 /\ exclude_datapipes' = OnStopIteration(exclude_datapipes, dp)
                 /\ Move(Seek(cursor + 1, exclude_datapipes', 0))
                 /\ UNCHANGED out
            [] r.result = "NotAvailable" ->
                 /\ LET s == AfterNotAvailable(cursor, exclude_datapipes) IN
                    /\ cursor' = s.at
                    /\ scan' = scan + s.scans
                    /\ gen' = IF s.kind = "done" THEN "done" ELSE "run"
                    /\ ctl' = IF s.kind = "done" THEN "free" ELSE "sleep"
                 /\ UNCHANGED <<exclude_datapipes, out>>
            [] r.result = "Error" ->
                 /\ gen' = "error"
                 /\ ctl' = "free"
                 /\ UNCHANGED <<exclude_datapipes, cursor, scan, out>>
    /\ UNCHANGED <<svc, wrk, passClean, loops, nTerm, ackd, joined, finDone, ops>>

\* The handle finds no answer to the outstanding NextItem within its read
\* timeout and raises; the try catches only StopIteration and NotAvailable, so
\* the error ends the generator.
MergeAbort ==
    /\ UNCHANGED dist
    /\ ctl = "sleep"
    /\ res_queue[datapipes[cursor]] = <<>>
    /\ gen' = "error"
    /\ ctl' = "free"
    /\ UNCHANGED <<svc, chan, wrk, hdl, exclude_datapipes, cursor, scan, out, passClean,
                   loops, hist, ops>>

----------------------------------------------------------------------------
\* PrototypeMultiProcessingReadingService.initialize_iteration

\* dp.reset_iterator() for the handle at position i of the loop, or the end of
\* the loop.  The handle refuses a reset while a NextItem is outstanding; else
\* it puts ResetIteration and waits for the answer.
ResetFrom(i) ==
    IF i > Len(datapipes) \/ req_sent[datapipes[i]]
    THEN /\ ctl' = "free"
         /\ ri' = 0
         /\ UNCHANGED <<req_queue, stopped>>
    ELSE /\ req_queue' = [req_queue EXCEPT ![datapipes[i]] = Append(@, ResetIteration)]
         /\ stopped' = [stopped EXCEPT ![datapipes[i]] = FALSE]
         /\ ri' = i
         /\ ctl' = "reset"

InitializeIteration ==
    /\ UNCHANGED dist
    /\ ctl = "free"
    /\ ops < MaxOps
    /\ ops' = ops + 1
    /\ ResetFrom(1)
    /\ passClean' = FALSE
    /\ UNCHANGED <<svc, res_queue, wrk, req_sent, gen, exclude_datapipes, cursor, scan, out,
                   fi, hist>>

\* The wait of reset_iterator ends with the worker's answer.
ResetRecv ==
    /\ UNCHANGED dist
    /\ ctl = "reset"
    /\ res_queue[datapipes[ri]] # <<>>
    /\ res_queue' = [res_queue EXCEPT ![datapipes[ri]] = Tail(@)]
    /\ IF Head(res_queue[datapipes[ri]]).tag = "ResetAck"
       THEN ResetFrom(ri + 1)
       ELSE /\ ctl' = "free"
            /\ ri' = 0
            /\ UNCHANGED <<req_queue, stopped>>
    /\ UNCHANGED <<svc, wrk, req_sent, mrg, fi, hist, ops>>

----------------------------------------------------------------------------
\* PrototypeMultiProcessingReadingService.finalize (and __del__, which calls it)

\* Variant: the list of processes is not cleared.
ReleasePoolKept == processes

\* self.processes = []
ReleasePool == <<>>

\* clean_me for the process at position i of the loop: req_queue.put(TerminateRequest()),
\* then the wait in res_queue.get(); or, past the last process, the end of finalize.
CleanFrom(i) ==
    IF i > Len(processes)
    THEN /\ processes' = ReleasePool
         /\ finDone' = finDone + 1
         /\ ctl' = "free"
         /\ fi' = 0
         /\ UNCHANGED <<req_queue, nTerm>>
    ELSE /\ req_queue' = [req_queue EXCEPT ![processes[i]] = Append(@, Terminate)]
         /\ nTerm' = [nTerm EXCEPT ![processes[i]] = @ + 1]
         /\ fi' = i
         /\ ctl' = "fin_get"
         /\ UNCHANGED <<processes, finDone>>

Finalize ==
    /\ UNCHANGED dist
    /\ ctl = "free"
    /\ ops < MaxOps
    /\ ops' = ops + 1
    /\ CleanFrom(1)
    /\ passClean' = FALSE
    /\ UNCHANGED <<num_workers, datapipes, pipeline, res_queue, wrk, hdl, gen, exclude_datapipes, cursor,
                   scan, out, ri, ackd, joined, pending, repolled>>

\* _ = res_queue.get(): whatever comes first off the response queue.
FinGet ==
    /\ UNCHANGED dist
    /\ ctl = "fin_get"
    /\ res_queue[processes[fi]] # <<>>
    /\ res_queue' = [res_queue EXCEPT ![processes[fi]] = Tail(@)]
    /\ ackd' = [ackd EXCEPT ![processes[fi]] =
                   @ \/ Head(res_queue[processes[fi]]).tag = "TerminateAck"]
    /\ ctl' = "fin_join"
    /\ UNCHANGED <<svc, req_queue, wrk, hdl, mrg, loops, nTerm, joined, pending, repolled,
                   finDone, ops>>

\* process.join() returns once the process has ended; the loop goes on.
FinJoin ==
    /\ UNCHANGED dist
    /\ ctl = "fin_join"
    /\ wstate[processes[fi]] \in {"exited", "dead"}
    /\ joined' = [joined EXCEPT ![processes[fi]] = TRUE]
    /\ CleanFrom(fi + 1)
    /\ UNCHANGED <<num_workers, datapipes, pipeline, res_queue, wrk, hdl, mrg, ri, ackd, pending,
                   repolled, ops>>

----------------------------------------------------------------------------
Next ==
    \/ Initialize
    \/ Serve
    \/ Crash
    \/ StartPass
    \/ Resume
    \/ MergePoll
    \/ MergeAbort
    \/ InitializeIteration
    \/ ResetRecv
    \/ Finalize
    \/ FinGet
    \/ FinJoin

Spec == Init /\ [][Next]_vars

\* The pool while every worker answers every request: no worker dies, none is
\* terminated, no read times out.  Workers keep serving, the controller keeps
\* running the loop it is in, the consumer keeps calling next().
PassNext ==
    \/ Initialize
    \/ Serve
    \/ StartPass
    \/ Resume
    \/ MergePoll
    \/ InitializeIteration
    \/ ResetRecv

PassSpec ==
    /\ Init
    /\ [][PassNext]_vars
    /\ \A w \in Workers : WF_vars(WorkerServe(w))
    /\ WF_vars(MergePoll)
    /\ WF_vars(ResetRecv)
    /\ WF_vars(Resume)

----------------------------------------------------------------------------
\* DistributedReadingService

\* The pipelines a caller hands to the first initialize, as their stages.
UserPipelines == {<<"Source">>, <<"Source", "FullSync">>, <<"FullSync", "Map">>}

Seeds == 1..MaxSeed

\* Every rank has constructed its service, or failed to, and holds the same
\* pipeline; the shards are not looked at.
DistInit ==
    /\ num_workers = 0
    /\ NoPool
    /\ dist_available \in BOOLEAN
    /\ \E p \in UserPipelines : pipe = [r \in Ranks |-> p]
    /\ slen = [r \in Ranks |-> 0]
    /\ NoDist

\* The caller starts the distributed runtime (dist.init_process_group returns
\* once every rank has joined).
InitProcessGroup ==
    /\ dist_available
    /\ ~dist_initialized
    /\ dist_initialized' = TRUE
    /\ UNCHANGED <<pool, dist_available, dfld, dgrp, dseed, diter, dhist>>

\* A call on the service of rank r is made between its other calls and before
\* the rank iterates its pipeline.
RECURSIVE CallsUpTo(_)
CallsUpTo(r) == IF r \in Ranks THEN calls[r] + CallsUpTo(r - 1) ELSE 0

CanCall(r) ==
    /\ dctl[r] = "free"
    /\ istate[r] = "idle"
    /\ CallsUpTo(WorldSize - 1) < MaxCalls

\* DistributedReadingService.__init__
Construct(r) ==
    /\ ~built[r]
    /\ CanCall(r)
    /\ calls' = [calls EXCEPT ![r] = @ + 1]
    /\ IF ~dist_available
       THEN /\ raised' = [raised EXCEPT ![r] = "NotAvailable"]
            /\ UNCHANGED dfld
       ELSE /\ raised' = [raised EXCEPT ![r] = "none"]
            /\ built' = [built EXCEPT ![r] = TRUE]
            /\ world_size' = [world_size EXCEPT ![r] = 1]
            /\ rank' = [rank EXCEPT ![r] = 0]
            /\ self_datapipe' = [self_datapipe EXCEPT ![r] = <<>>]
            /\ timeout' = [timeout EXCEPT ![r] = DefaultTimeout]
            /\ pg' = [pg EXCEPT ![r] = DefaultGroup]
    /\ UNCHANGED <<pool, denv, dgrp, dseed, diter>>

\* Variant: only the availability of the runtime is checked.
InitPreconditionAvailable(r) == dist_available

\* dist.is_available() and dist.is_initialized()
InitPrecondition(r) == dist_available /\ dist_initialized

\* Variant: a FullSync stage is appended whatever the pipeline ends in.
NeedsFullSyncAlways(dp) == TRUE

\* Variant: no FullSync stage is appended.
NeedsFullSyncNever(dp) == FALSE

\* not isinstance(datapipe, FullSync): the pipeline is its last stage.
NeedsFullSync(dp) == dp[Len(dp)] # "FullSync"

\* datapipe.fullsync(self._timeout)
fullsync(dp) == Append(dp, "FullSync")

\* DistributedReadingService.initialize, called with the pipeline the caller holds.
DInitialize(r) ==
    /\ built[r]
    /\ CanCall(r)
    /\ calls' = [calls EXCEPT ![r] = @ + 1]
    /\ IF ~InitPrecondition(r)
       THEN /\ raised' = [raised EXCEPT ![r] = "NotInitialized"]
            /\ UNCHANGED <<dfld, dgrp>>
       ELSE /\ raised' = [raised EXCEPT ![r] = "none"]
            /\ world_size' = [world_size EXCEPT ![r] = WorldSize]
            /\ rank' = [rank EXCEPT ![r] = r]
            /\ ngroups' = [ngroups EXCEPT ![r] = @ + 1]
            /\ pg' = [pg EXCEPT ![r] = ngroups'[r]]
            /\ sharding' = [sharding EXCEPT ![r] = <<rank'[r], world_size'[r]>>]
            /\ pipe' = [pipe EXCEPT ![r] = IF NeedsFullSync(@) THEN fullsync(@) ELSE @]
            /\ self_datapipe' = [self_datapipe EXCEPT ![r] = pipe'[r]]
            /\ UNCHANGED <<built, timeout>>
    /\ UNCHANGED <<pool, denv, dseed, diter>>

\* dist.broadcast(shared_seed, src=0, ...)
BroadcastSrc == 0

\* Variant: the value drawn on the rank itself is returned.
SharedSeedLocal(r, drawn, got) == drawn

\* shared_seed after dist.broadcast: the tensor is overwritten with the value
\* of the source on every other rank.
SharedSeed(r, drawn, got) == IF r = BroadcastSrc THEN drawn ELSE got

\* The rest of initialize_iteration once _share_seed has returned seed, the
\* k-th value broadcast on group g: the assert and apply_random_seed.
ApplySeed(r, g, k, seed) ==
    IF self_datapipe[r] = <<>>
    THEN /\ raised' = [raised EXCEPT ![r] = "AssertionError"]
         /\ UNCHANGED applied
    ELSE /\ raised' = [raised EXCEPT ![r] = "none"]
         /\ applied' = [applied EXCEPT ![r] = Append(@, [grp |-> g, idx |-> k, seed |-> seed])]

\* DistributedReadingService.initialize_iteration up to dist.broadcast: rank 0
\* sends what it drew and goes on, another rank waits for the value of rank 0.
DInitializeIteration(r) ==
    /\ built[r]
    /\ CanCall(r)
    /\ calls' = [calls EXCEPT ![r] = @ + 1]
    /\ IF ~dist_initialized
       THEN /\ raised' = [raised EXCEPT ![r] = "NoDefaultGroup"]
            /\ UNCHANGED dseed
       ELSE \E drawn \in Seeds :
              IF r = BroadcastSrc
              THEN /\ sent' = [sent EXCEPT ![pg[r]] = Append(@, drawn)]
                   /\ ApplySeed(r, pg[r], Len(sent[pg[r]]) + 1, SharedSeed(r, drawn, drawn))
                   /\ UNCHANGED <<dctl, local_seed, nrecv>>
              ELSE /\ dctl' = [dctl EXCEPT ![r] = "bcast"]
                   /\ local_seed' = [local_seed EXCEPT ![r] = drawn]
                   /\ UNCHANGED <<sent, nrecv, applied, raised>>
    /\ UNCHANGED <<pool, denv, dfld, dgrp, diter>>

\* dist.broadcast returns on a rank other than the source, and the call goes on.
BroadcastRecv(r) ==
    /\ dctl[r] = "bcast"
    /\ LET g == pg[r]
           k == nrecv[r][g] + 1
       IN
       /\ Len(sent[g]) >= k
       /\ nrecv' = [nrecv EXCEPT ![r][g] = k]
       /\ ApplySeed(r, g, k, SharedSeed(r, local_seed[r], sent[g][k]))
    /\ dctl' = [dctl EXCEPT ![r] = "free"]
    /\ local_seed' = [local_seed EXCEPT ![r] = 0]
    /\ UNCHANGED <<pool, denv, dfld, dgrp, sent, diter, calls>>

\* The value of rank 0 does not come within the timeout of the group: the
\* collective fails on the rank, which is fatal to it.
BroadcastTimeout(r) ==
    /\ dctl[r] = "bcast"
    /\ Len(sent[pg[r]]) <= nrecv[r][pg[r]]
    /\ dctl' = [dctl EXCEPT ![r] = "failed"]
    /\ raised' = [raised EXCEPT ![r] = "Timeout"]
    /\ UNCHANGED <<pool, denv, dfld, dgrp, local_seed, sent, nrecv, applied, diter, calls>>

\* DistributedReadingService.finalize
DFinalize(r) ==
    /\ built[r]
    /\ CanCall(r)
    /\ calls' = [calls EXCEPT ![r] = @ + 1]
    /\ raised' = [raised EXCEPT ![r] = "none"]
    /\ pg' = [pg EXCEPT ![r] = DefaultGroup]
    /\ UNCHANGED <<pool, denv, built, world_size, rank, self_datapipe, timeout, dgrp, dseed, diter>>

\* The caller starts to iterate the pipeline initialize returned.
IterBegin(r) ==
    /\ dctl[r] = "free"
    /\ self_datapipe[r] # <<>>
    /\ istate[r] = "idle"
    /\ istate' = [istate EXCEPT ![r] = "iter"]
    /\ UNCHANGED <<pool, denv, dfld, dgrp, dseed, slen, ipos, broken, dhist>>

\* The pipeline ends in a FullSync stage.
HasBarrier(dp) == dp[Len(dp)] = "FullSync"

\* The next item of the rank's shard, or its end: without a FullSync stage the
\* iteration ends there, with one the rank signals that its shard is
\* exhausted and is held.
IterNext(r) ==
    /\ istate[r] = "iter"
    /\ IF ipos[r] < slen[r]
       THEN /\ ipos' = [ipos EXCEPT ![r] = @ + 1]
            /\ UNCHANGED istate
       ELSE /\ istate' = [istate EXCEPT ![r] =
                             IF ~HasBarrier(pipe[r]) THEN "done"
                             ELSE IF broken THEN "timeout" ELSE "sync"]
            /\ UNCHANGED ipos
    /\ UNCHANGED <<pool, denv, dfld, dgrp, dseed, slen, broken, dhist>>

\* FullSync lets rank r go once every rank has signalled the end of its shard.
BarrierRelease(r) ==
    /\ istate[r] = "sync"
    /\ ~broken
    /\ \A q \in Ranks : istate[q] \in {"sync", "done"}
    /\ istate' = [istate EXCEPT ![r] = "done"]
    /\ UNCHANGED <<pool, denv, dfld, dgrp, dseed, slen, ipos, broken, dhist>>

\* Some rank has not signalled the end of its shard when the timeout of
\* FullSync elapses: the collective fails for the ranks it holds and for
\* every rank that comes to it later.
BarrierTimeout ==
    /\ ~broken
    /\ \E r \in Ranks : istate[r] = "sync"
    /\ \E q \in Ranks : istate[q] \in {"idle", "iter"}
    /\ broken' = TRUE
    /\ istate' = [r \in Ranks |-> IF istate[r] = "sync" THEN "timeout" ELSE istate[r]]
    /\ UNCHANGED <<pool, denv, dfld, dgrp, dseed, slen, ipos, dhist>>

\* The calls on the services of the ranks and the seed broadcast.
DistNext ==
    \/ InitProcessGroup
    \/ \E r \in Ranks : Construct(r)
    \/ \E r \in Ranks : DInitialize(r)
    \/ \E r \in Ranks : DInitializeIteration(r)
    \/ \E r \in Ranks : BroadcastRecv(r)
    \/ \E r \in Ranks : BroadcastTimeout(r)
    \/ \E r \in Ranks : DFinalize(r)

DistSpec == DistInit /\ [][DistNext]_vars

\* One iteration of the pipelines initialize returned, every rank with a shard
\* of its own length.
SyncInit ==
    /\ num_workers = 0
    /\ NoPool
    /\ dist_available = TRUE
    /\ \E p \in UserPipelines : pipe = [r \in Ranks |-> p]
    /\ slen \in [Ranks -> 0..MaxShard]
    /\ NoDist

SyncNext ==
    \/ InitProcessGroup
    \/ \E r \in Ranks : DInitialize(r)
    \/ \E r \in Ranks : IterBegin(r)
    \/ \E r \in Ranks : IterNext(r)
    \/ \E r \in Ranks : BarrierRelease(r)
    \/ BarrierTimeout

SyncSpec == SyncInit /\ [][SyncNext]_vars

----------------------------------------------------------------------------
\* Properties.

\* The items of worker w in o, in the order of o.
ItemsOf(o, w) == SelectSeq(o, LAMBDA x : x[1] = w)

\* The items worker w produces from a reset to its EndOfStream.
Produced(w) == [k \in 1..wlen[w] |-> <<w, k>>]

Count(o, w) == Len(ItemsOf(o, w))

Active == {i \in 1..Len(datapipes) : NotExcluded(datapipes[i], exclude_datapipes)}

AllExcluded == Range(exclude_datapipes) = Range(datapipes)

\* C1: a complete pass over freshly reset workers yields every item of every
\* worker exactly once and nothing else, each worker's items in the order it
\* produced them.
C1_MergeYieldsUnion ==
    (gen = "done" /\ passClean) =>
        /\ \A i \in 1..Len(datapipes) : ItemsOf(out, datapipes[i]) = Produced(datapipes[i])
        /\ \A j \in 1..Len(out) : out[j][1] \in Range(datapipes)

C1_Witness ==
    /\ gen = "done" /\ passClean
    /\ Len(datapipes) = 2
    /\ wlen[datapipes[1]] = 2 /\ wlen[datapipes[2]] = 1
    /\ Len(out) = 3

\* C2: the pass ends only with every worker excluded, it is not still running
\* with every worker excluded, and while every worker answers, a running pass
\* ends.
C2_EndsIffAllExcluded ==
    /\ [][(gen # "done" /\ gen' = "done") => AllExcluded']_vars
    /\ [](gen \in {"run", "yield"} => ~AllExcluded)
    /\ [](gen = "run" => <>(gen = "done"))

C2_Witness ==
    /\ gen = "done" /\ passClean
    /\ Len(datapipes) = 2
    /\ AllExcluded
    /\ Len(out) >= 2

\* The current scan has already taken an item from position i.
YieldedThisScan(i) == i < cursor \/ (i = cursor /\ gen = "yield")

\* C3: in a pass over freshly reset workers, any two workers not yet excluded
\* have yielded numbers of items that differ by at most one, and a worker not
\* yet excluded has yielded one item in every completed scan, plus one if the
\* current scan is past it; an excluded worker has yielded all its items.
C3_RoundRobin ==
    passClean =>
        /\ \A i, j \in Active :
              Count(out, datapipes[i]) - Count(out, datapipes[j]) \in {-1, 0, 1}
        /\ \A i \in Active :
              Count(out, datapipes[i]) = scan + (IF YieldedThisScan(i) THEN 1 ELSE 0)
        /\ \A i \in (1..Len(datapipes)) \ Active :
              Count(out, datapipes[i]) = wlen[datapipes[i]]

C3_Witness ==
    /\ passClean /\ gen = "yield"
    /\ Active = {1, 2}
    /\ scan = 1
    /\ Count(out, datapipes[1]) = 2 /\ Count(out, datapipes[2]) = 1

\* C4: a handle that has answered EndOfStream is not polled again before it is reset.
C4_NoPollAfterEndOfStream == ~repolled

\* NextItem requests and their answers on the queues of worker w.
InFlight(w) ==
    Len(SelectSeq(req_queue[w], LAMBDA m : m = NextItem))
    + Len(SelectSeq(res_queue[w], LAMBDA m : m.tag \in {"Value", "EndOfStream"}))

\* C5: per worker, the NextItem requests sent exceed the Value/EndOfStream
\* answers taken by at most one, and at most one NextItem or its answer is in
\* flight on the worker's queues.
C5_OneOutstandingNextItem ==
    \A w \in Workers : pending[w] \in {0, 1} /\ InFlight(w) <= 1

C5_Witness ==
    \E w \in Workers :
        /\ ctl = "sleep" /\ datapipes[cursor] = w
        /\ pending[w] = 1 /\ req_queue[w] = <<NextItem>>
        /\ Count(out, w) >= 1

\* C6 as stated: the backoff delay is taken only when every worker still active
\* has reported NotAvailable in the scan.
C6_BackoffOnlyWhenAllBusy ==
    ctl = "sleep" => \A i \in Active : req_sent[datapipes[i]]

\* C6 amended: in a pass over freshly reset workers the backoff delay follows
\* every NotAvailable, only the handle under the cursor has been asked for an
\* item, and the loop leaves a handle it waits for only by excluding it on its
\* EndOfStream.
C6_WaitsOnBusyWorker ==
    /\ [](passClean /\ ctl = "sleep" =>
            /\ req_sent[datapipes[cursor]]
            /\ \A i \in 1..Len(datapipes) :
                  i # cursor => ~req_sent[datapipes[i]] /\ pending[datapipes[i]] = 0)
    /\ [][(ctl = "sleep" /\ cursor' # cursor) =>
              exclude_datapipes' = Append(exclude_datapipes, datapipes[cursor])]_vars

C6_Witness ==
    /\ passClean /\ ctl = "sleep"
    /\ cursor = 1 /\ Active = {1, 2}
    /\ wstate[datapipes[2]] = "alive" /\ wpos[datapipes[2]] < wlen[datapipes[2]]
    /\ scan = 1

\* C7: a worker that ended by Terminate was sent exactly one Terminate, and its
\* process is joined only after finalize took that worker's TerminateAck off
\* its response queue.
C7_JoinOnlyAfterAck ==
    \A w \in Workers : (joined[w] /\ wstate[w] = "exited") => (ackd[w] /\ nTerm[w] = 1)

\* C8: no worker is sent Terminate twice, and a finalize call that finds no
\* process to clean changes nothing.
C8_FinalizeIdempotent ==
    /\ [](\A w \in Workers : nTerm[w] <= 1)
    /\ [][(ctl = "free" /\ finDone' = finDone + 1) =>
              UNCHANGED <<svc, chan, wrk, hdl, gen, exclude_datapipes, cursor, scan, out,
                          loops, nTerm, ackd, joined, pending, repolled, ctl>>]_vars

C8_Witness ==
    /\ finDone >= 2
    /\ processes = <<>>
    /\ \E w \in Workers : nTerm[w] = 1 /\ joined[w] /\ ackd[w]

\* finalize is inside res_queue.get() for a worker that died and left no response.
FinalizeStuck ==
    /\ ctl = "fin_get"
    /\ wstate[processes[fi]] = "dead"
    /\ res_queue[processes[fi]] = <<>>

\* C9: finalize never waits on the response queue of a worker that has died
\* and left nothing on it.
C9_HandshakeBounded == ~FinalizeStuck

\* C10: when finalize cannot complete for a dead worker, every other worker
\* still alive has been sent Terminate.
C10_CleanupOnError ==
    FinalizeStuck =>
        \A i \in 1..Len(processes) : wstate[processes[i]] = "alive" => nTerm[processes[i]] >= 1

\* C11 as stated: whenever the pool holds workers, they number exactly
\* num_workers and no two of them have the same shard index.
C11_ExactlyKWorkers ==
    processes # <<>> =>
        /\ Len(processes) = num_workers
        /\ \A i, j \in 1..Len(processes) :
              i # j => shard[processes[i]][1] # shard[processes[j]][1]

\* C11 amended: the workers the pool holds are distinct processes, each with
\* its own pair of queues, they come in groups of num_workers, one group per
\* initialize since the pool was last empty, and within each group the shard
\* indices are 0..num_workers-1 in order, with shard count num_workers; so a
\* pool initialized once holds exactly num_workers workers with distinct
\* shard indices.
C11_ShardsPerInitialize ==
    /\ num_workers = 0 => processes = <<>>
    /\ num_workers > 0 =>
          /\ Len(processes) % num_workers = 0
          /\ \A i \in 1..Len(processes) :
                /\ wstate[processes[i]] # "unborn"
                /\ shard[processes[i]] = <<(i - 1) % num_workers, num_workers>>
          /\ \A i, j \in 1..Len(processes) : i # j => processes[i] # processes[j]
          /\ Len(processes) = num_workers =>
                {shard[processes[i]][1] : i \in 1..Len(processes)} = 0..(num_workers - 1)

C11_Witness ==
    /\ num_workers = 2
    /\ Len(processes) = 2
    /\ shard[processes[1]] = <<0, 2>> /\ shard[processes[2]] = <<1, 2>>
    /\ ops >= 2
    /\ ctl = "free"

\* The step puts a ResetIteration on the request queue of worker w.
ResetPut(w) == req_queue'[w] = Append(req_queue[w], ResetIteration)

\* The step is a call of initialize_iteration on a pool that holds handles.
ResetCalled ==
    /\ ctl = "free" /\ datapipes # <<>>
    /\ ops' = ops + 1
    /\ datapipes' = datapipes /\ gen' = gen

C13_PassthroughNoOp ==
    /\ [](num_workers = 0 =>
            /\ pipeline \in {"none", "datapipe"}
            /\ processes = <<>> /\ datapipes = <<>>
            /\ gen = "none" /\ ctl = "free"
            /\ \A w \in Workers :
                  /\ wstate[w] = "unborn"
                  /\ req_queue[w] = <<>> /\ res_queue[w] = <<>>
                  /\ nTerm[w] = 0 /\ pending[w] = 0)
    /\ [][(num_workers = 0 /\ ops' # ops) =>
            /\ pipeline' \in {pipeline, "datapipe"}
            /\ UNCHANGED <<num_workers, processes, datapipes, chan, wrk, hdl, gen,
                           exclude_datapipes, cursor, scan, out, loops, ctl>>]_vars

C13_Witness ==
    /\ num_workers = 0
    /\ pipeline = "datapipe"
    /\ finDone = 1
    /\ ops >= 3

\* C19: between service calls the handles the pool holds are those of the
\* processes it holds, and the request queue of a worker that has answered
\* Terminate and exited stays empty: nothing is sent to it any more.
C19_HandlesOfLiveProcesses ==
    /\ ctl = "free" => Range(datapipes) = Range(processes)
    /\ \A w \in Workers : wstate[w] = "exited" => req_queue[w] = <<>>

\* Row j of the round robin: in pool order, the j-th item of every worker that
\* has at least j items.
RECURSIVE Row(_, _)
Row(j, i) ==
    IF i > Len(datapipes)
    THEN <<>>
    ELSE (IF wlen[datapipes[i]] >= j THEN <<<<datapipes[i], j>>>> ELSE <<>>) \o Row(j, i + 1)

\* Rows j, j+1, ... one after the other.
RECURSIVE Rows(_)
Rows(j) == IF Row(j, 1) = <<>> THEN <<>> ELSE Row(j, 1) \o Rows(j + 1)

\* C20: in a pass over freshly reset workers, whatever the workers' timing,
\* the items yielded so far are a prefix of the row-by-row round-robin
\* interleaving of the workers' sequences, and a complete pass has yielded
\* exactly that interleaving.
C20_OrderIndependentOfTiming ==
    passClean =>
        LET all == Rows(1) IN
        /\ Len(out) <= Len(all)
        /\ out = SubSeq(all, 1, Len(out))
        /\ gen = "done" => out = all

C20_Witness ==
    /\ passClean /\ gen = "done"
    /\ Len(datapipes) = 2
    /\ wlen[datapipes[1]] = 1 /\ wlen[datapipes[2]] = 2
    /\ out = <<<<datapipes[1], 1>>, <<datapipes[2], 1>>, <<datapipes[2], 2>>>>

\* What initialize sets up on rank r is as it was before the step.
SameSetup(r) ==
    /\ built'[r] = built[r]
    /\ world_size'[r] = world_size[r] /\ rank'[r] = rank[r]
    /\ timeout'[r] = timeout[r]
    /\ pg'[r] = pg[r] /\ ngroups'[r] = ngroups[r]
    /\ sharding'[r] = sharding[r]
    /\ pipe'[r] = pipe[r] /\ self_datapipe'[r] = self_datapipe[r]

\* C14: without an available runtime no service object comes to exist and
\* construction raises; a group, a sharding, a stored pipeline exist on a rank
\* only if the runtime was available and started; and a call that raises a
\* precondition error leaves rank, world size, group, sharding and pipeline
\* of the rank as they were.
C14_PreconditionErrorChangesNothing ==
    /\ [](~dist_available => \A r \in Ranks : ~built[r])
    /\ [](\A r \in Ranks :
            (ngroups[r] > 0 \/ pg[r] # DefaultGroup \/ sharding[r] # <<0, 0>>
               \/ self_datapipe[r] # <<>> \/ world_size[r] > 1 \/ rank[r] # 0)
            => dist_available /\ dist_initialized)
    /\ [][\A r \in Ranks :
            (calls'[r] # calls[r] /\ ~built[r]) => raised'[r] = "NotAvailable"]_vars
    /\ [][\A r \in Ranks :
            (calls'[r] # calls[r] /\ raised'[r] \in {"NotAvailable", "NotInitialized"})
            => SameSetup(r)]_vars

C14_Witness ==
    \E r \in Ranks :
        /\ raised[r] = "NotInitialized"
        /\ built[r] /\ ~dist_initialized
        /\ pg[r] = DefaultGroup /\ ngroups[r] = 0
        /\ pipe[r] = <<"Source">> /\ sharding[r] = <<0, 0>>

\* C15: every seed a rank has applied is the value rank 0 drew and sent in
\* the broadcast the rank took it from, so two ranks that took part in the
\* same broadcast applied the same seed; and a rank's successive iterations
\* on a group take successive broadcasts, none is used twice.
C15_SeedOfRankZero ==
    /\ \A r \in Ranks : \A k \in 1..Len(applied[r]) :
          /\ applied[r][k].idx <= Len(sent[applied[r][k].grp])
          /\ applied[r][k].seed = sent[applied[r][k].grp][applied[r][k].idx]
    /\ \A r, q \in Ranks : \A i \in 1..Len(applied[r]) : \A j \in 1..Len(applied[q]) :
          (applied[r][i].grp = applied[q][j].grp /\ applied[r][i].idx = applied[q][j].idx)
          => applied[r][i].seed = applied[q][j].seed
    /\ \A r \in Ranks : \A i, j \in 1..Len(applied[r]) :
          (i < j /\ applied[r][i].grp = applied[r][j].grp)
          => applied[r][i].idx < applied[r][j].idx

C15_Witness ==
    /\ Len(applied[0]) = 2
    /\ applied[0][1].seed = 1 /\ applied[0][2].seed = 2
    /\ applied[0][1].grp = 1 /\ applied[0][2].grp = 1
    /\ Len(applied[1]) = 1
    /\ applied[1][1] = [grp |-> 1, idx |-> 1, seed |-> 1]

\* C16: a rank ends its iteration normally only when every rank has come to
\* the end of its shard, and once the barrier has timed out no rank ends its
\* iteration normally or is still held by it.
C16_BarrierHoldsEveryRank ==
    /\ \A r \in Ranks :
          istate[r] = "done" =>
             \A q \in Ranks : ipos[q] = slen[q] /\ istate[q] \in {"sync", "done"}
    /\ broken => \A r \in Ranks : istate[r] \notin {"sync", "done"}

C16_Witness ==
    /\ slen[0] = 0 /\ slen[1] = 1
    /\ pipe[0] = <<"Source", "FullSync">> /\ ngroups[0] = 1
    /\ istate[0] = "done" /\ istate[1] = "sync"
    /\ ipos[1] = 1

\* The FullSync stages the pipeline ends in.
RECURSIVE TrailingFullSyncs(_)
TrailingFullSyncs(dp) ==
    IF dp = <<>> \/ dp[Len(dp)] # "FullSync"
    THEN 0
    ELSE 1 + TrailingFullSyncs(SubSeq(dp, 1, Len(dp) - 1))

\* C17: the pipeline a successful initialize returned and stored ends in
\* exactly one FullSync stage, however many initialize calls it went through,
\* and a call changes the pipeline only by appending one FullSync stage to a
\* pipeline that does not end in one.
C17_OneBarrierAtTheEnd ==
    /\ [](\A r \in Ranks :
            self_datapipe[r] # <<>> =>
               /\ self_datapipe[r] = pipe[r]
               /\ TrailingFullSyncs(pipe[r]) = 1)
    /\ [][\A r \in Ranks :
            pipe'[r] # pipe[r] =>
               /\ TrailingFullSyncs(pipe[r]) = 0
               /\ pipe'[r] = Append(pipe[r], "FullSync")]_vars

C17_Witness ==
    \E r \in Ranks :
        /\ ngroups[r] = 2
        /\ pipe[r] = <<"FullSync", "Map", "FullSync">>
        /\ self_datapipe[r] = pipe[r]

\* C18: no seed is broadcast, awaited or applied on the default group, that
\* is by a service that holds no group of its own because initialize has not
\* been called or finalize has released it.
C18_BroadcastOnlyWhileInitialized ==
    /\ sent[DefaultGroup] = <<>>
    /\ \A r \in Ranks :
          /\ dctl[r] = "bcast" => pg[r] # DefaultGroup
          /\ \A k \in 1..Len(applied[r]) : applied[r][k].grp # DefaultGroup
====
